---------------------------- MODULE Spec2Model ----------------------------
(***************************************************************************)
(* A model of issueify (src/main.go): the issue store kept in              *)
(* .issue_tracker.json, the auto-labeler, and the commands add, list,      *)
(* close, publish and push.                                                *)
(*                                                                         *)
(* Text is modelled as sequences of one-character strings, so that the     *)
(* prefix regular expressions, sort.Strings and strconv.Atoi are computed  *)
(* character by character as the Go code computes them.  The store file is *)
(* modelled by the array json.Unmarshal yields from it.  The file system   *)
(* is assumed to work: the repository root is found and the store file can *)
(* be read and written.                                                    *)
(***************************************************************************)
EXTENDS Integers, Sequences, FiniteSets, TLC

(***************************************************************************)
(* Characters and strings                                                  *)
(***************************************************************************)
Upper ==
    << "A", "B", "C", "D", "E", "F", "G", "H", "I", "J", "K", "L", "M",
       "N", "O", "P", "Q", "R", "S", "T", "U", "V", "W", "X", "Y", "Z" >>

Lower ==
    << "a", "b", "c", "d", "e", "f", "g", "h", "i", "j", "k", "l", "m",
       "n", "o", "p", "q", "r", "s", "t", "u", "v", "w", "x", "y", "z" >>

Digits ==
    << "0", "1", "2", "3", "4", "5", "6", "7", "8", "9" >>

IndexIn(s, c) ==
    CHOOSE i \in 1..Len(s) : s[i] = c

IsIn(s, c) ==
    \E i \in 1..Len(s) : s[i] = c

\* The byte value of a character (ASCII), the order sort.Strings compares by.
Code(c) ==
    IF IsIn(Upper, c) THEN 64 + IndexIn(Upper, c)
    ELSE IF IsIn(Lower, c) THEN 96 + IndexIn(Lower, c)
    ELSE IF IsIn(Digits, c) THEN 47 + IndexIn(Digits, c)
    ELSE IF c = " " THEN 32
    ELSE IF c = "+" THEN 43
    ELSE IF c = "-" THEN 45
    ELSE 58   \* ":"

\* Case folding of the (?i) flag on ASCII letters: a letter of the pattern
\* matches the same letter in either case.
Fold(c) ==
    IF IsIn(Lower, c) THEN Upper[IndexIn(Lower, c)] ELSE c

\* a < b on Go strings: bytewise lexicographic order.
StrLess(a, b) ==
    \E k \in 1..Len(b) :
        /\ \A i \in 1..(k - 1) : i <= Len(a) /\ a[i] = b[i]
        /\ \/ k = Len(a) + 1
           \/ k <= Len(a) /\ Code(a[k]) < Code(b[k])

\* sort.Strings: the ascending arrangement of the list (insertion of each
\* element after the elements not greater than it).
RECURSIVE InsertSorted(_, _)
InsertSorted(s, x) ==
    IF s = << >> THEN << x >>
    ELSE IF StrLess(x, Head(s)) THEN << x >> \o s
    ELSE << Head(s) >> \o InsertSorted(Tail(s), x)

RECURSIVE SortStrings(_)
SortStrings(s) ==
    IF s = << >> THEN << >>
    ELSE InsertSorted(SortStrings(Tail(s)), Head(s))

(***************************************************************************)
(* Issues and the label rules                                              *)
(***************************************************************************)
statusOpen == "open"

statusClosed == "closed"

L_bug == << "b", "u", "g" >>

L_feature == << "f", "e", "a", "t", "u", "r", "e" >>

L_documentation ==
    << "d", "o", "c", "u", "m", "e", "n", "t", "a", "t", "i", "o", "n" >>

L_refactor == << "r", "e", "f", "a", "c", "t", "o", "r" >>

L_testing == << "t", "e", "s", "t", "i", "n", "g" >>

L_chore == << "c", "h", "o", "r", "e" >>

\* The rules in order; alts are the alternatives of the group, each followed
\* by ":" and anchored at the start of the title.
defaultLabelPatterns ==
    << [alts |-> { << "B", "U", "G" >>, << "F", "I", "X" >>,
                   << "B", "U", "G", "F", "I", "X" >> },
        label |-> L_bug],
       [alts |-> { << "F", "E", "A", "T" >>,
                   << "F", "E", "A", "T", "U", "R", "E" >> },
        label |-> L_feature],
       [alts |-> { << "D", "O", "C", "S" >>,
                   << "D", "O", "C", "U", "M", "E", "N", "T", "A", "T", "I", "O", "N" >> },
        label |-> L_documentation],
       [alts |-> { << "R", "E", "F", "A", "C", "T", "O", "R" >> },
        label |-> L_refactor],
       [alts |-> { << "T", "E", "S", "T" >>, << "T", "E", "S", "T", "S" >> },
        label |-> L_testing],
       [alts |-> { << "C", "H", "O", "R", "E" >> },
        label |-> L_chore] >>

\* MatchString without the (?i) flag.
MatchString_CaseSensitive(lp, title) ==
    \E alt \in lp.alts :
        /\ Len(title) >= Len(alt) + 1
        /\ \A i \in 1..Len(alt) : title[i] = alt[i]
        /\ title[Len(alt) + 1] = ":"

\* lp.Pattern.MatchString(title) for (?i)^(alt1|alt2|...):
MatchString(lp, title) ==
    \E alt \in lp.alts :
        /\ Len(title) >= Len(alt) + 1
        /\ \A i \in 1..Len(alt) : Fold(title[i]) = alt[i]
        /\ title[Len(alt) + 1] = ":"

Contains(labels, l) ==
    \E i \in 1..Len(labels) : labels[i] = l
\* ApplyPatterns without labelSet: the label of a matching rule is appended
\* whether or not the issue holds it.
RECURSIVE ApplyPatterns_NoLabelSet(_, _, _)
ApplyPatterns_NoLabelSet(labels, title, k) ==
    IF k > Len(defaultLabelPatterns) THEN labels
    ELSE LET lp == defaultLabelPatterns[k]
         IN  IF MatchString(lp, title)
             THEN ApplyPatterns_NoLabelSet(Append(labels, lp.label), title, k + 1)
             ELSE ApplyPatterns_NoLabelSet(labels, title, k + 1)

\* The loop over defaultLabelPatterns from rule k on; labelSet is the set of
\* the labels held so far, so a label already present is not appended.
RECURSIVE ApplyPatterns(_, _, _)
ApplyPatterns(labels, title, k) ==
    IF k > Len(defaultLabelPatterns) THEN labels
    ELSE LET lp == defaultLabelPatterns[k]
         IN  IF MatchString(lp, title) /\ ~Contains(labels, lp.label)
             THEN ApplyPatterns(Append(labels, lp.label), title, k + 1)
             ELSE ApplyPatterns(labels, title, k + 1)

\* autoLabel(&issue): the issue with its labels extended and sorted.
autoLabel(issue) ==
    [issue EXCEPT !.labels = SortStrings(ApplyPatterns(issue.labels, issue.title, 1))]

(***************************************************************************)
(* strconv.Atoi                                                            *)
(***************************************************************************)
RECURSIVE DigitsValue(_, _)
DigitsValue(s, acc) ==
    IF s = << >> THEN acc
    ELSE DigitsValue(Tail(s), acc * 10 + (IndexIn(Digits, Head(s)) - 1))

\* An optional sign followed by one or more decimal digits; anything else is
\* a syntax error.
Atoi(s) ==
    LET signed == s # << >> /\ s[1] \in {"+", "-"}
        body   == IF signed THEN Tail(s) ELSE s
    IN  IF body = << >> \/ \E i \in 1..Len(body) : ~IsIn(Digits, body[i])
        THEN [ok |-> FALSE, val |-> 0]
        ELSE [ok |-> TRUE,
              val |-> IF signed /\ s[1] = "-"
                      THEN 0 - DigitsValue(body, 0)
                      ELSE DigitsValue(body, 0)]

(***************************************************************************)
(* Bounds and input sets                                                   *)
(***************************************************************************)
\* add is not started on a store that already holds MaxStore issues.
MaxStore == 3

\* The longest store the single-invocation specification starts from.
MaxAnyLen == 2

\* The invocations: each is one run of the command-line program.
Procs == {"p1", "p2"}

\* The values time.Now() yields.
Times == {1, 2}

T_bug == << "B", "U", "G", ":", " ", "c", "r", "a", "s", "h", " ", "o", "n", " ", "s", "a", "v", "e" >>

T_feat == << "f", "e", "a", "t", ":", "x" >>

T_todo == << "t", "o", "d", "o" >>

\* The titles given to add in the long-running specification.
Titles == { << >>, T_bug, T_todo }

\* The titles given to add in the single-invocation specification: every
\* keyword, in either case, and near misses of the rules.
AllTitles ==
    Titles \cup
    { T_feat,
      << "F", "i", "x", ":", "a" >>,
      << "b", "u", "g", "f", "i", "x", ":" >>,
      << "F", "E", "A", "T", "U", "R", "E", ":", "b" >>,
      << "D", "o", "c", "s", ":", "c" >>,
      << "d", "o", "c", "u", "m", "e", "n", "t", "a", "t", "i", "o", "n", ":" >>,
      << "R", "e", "F", "a", "C", "t", "O", "r", ":", " ", "d" >>,
      << "t", "e", "s", "t", ":", "e" >>,
      << "T", "E", "S", "T", "S", ":", "f" >>,
      << "C", "h", "o", "r", "e", ":", "g" >>,
      << "B", "U", "G" >>,
      << "B", "U", "G", " ", ":", "h" >>,
      << "B", "U", "G", "S", ":", "i" >>,
      << " ", "B", "U", "G", ":", "j" >>,
      << "a", " ", "F", "I", "X", ":", "k" >>,
      << "F", "E", "A", "T", "S", ":" >>,
      << "D", "O", "C", ":", "l" >>,
      << "T", "E", "S", "T", "I", "N", "G", ":" >>,
      << ":" >> }

\* The arguments given to close.
IdStrs ==
    { << "1" >>, << "2" >>, << "3" >>, << "0", "2" >>, << "+", "1" >>,
      << "9", "9" >>, << "-", "1" >>, << "x" >>, << "1", "x" >>, << >> }

L_Bug == << "B", "u", "g" >>

L_bu == << "b", "u" >>

\* The values of --label= given to list; the empty string is no filter.
LabelFilters == { << >>, L_bug, L_feature, L_Bug, L_bu }

\* The arguments given to publish.
Formats == { "markdown", "json", "xml", "" }

\* What `gh repo view` yields: an error, or the output trimmed and split at "/".
GhRepoOutputs ==
    { [err |-> TRUE, parts |-> << "" >>],
      [err |-> FALSE, parts |-> << "ghowner", "ghrepo" >>],
      [err |-> FALSE, parts |-> << "ghowner" >>],
      [err |-> FALSE, parts |-> << "", "ghrepo" >>],
      [err |-> FALSE, parts |-> << "ghowner", "ghrepo", "x" >>] }

\* What `gh auth token` yields: an error, or the output trimmed.
GhTokenOutputs ==
    { [err |-> TRUE, out |-> ""],
      [err |-> FALSE, out |-> "ghtoken"],
      [err |-> FALSE, out |-> ""] }

\* The environment: GITHUB_TOKEN, GITHUB_OWNER, GITHUB_REPO, "" when unset.
Environments ==
    [token : {"", "envtoken"}, owner : {"", "envowner"}, repo : {"", "envrepo"}]

(***************************************************************************)
(* State                                                                   *)
(***************************************************************************)
VARIABLES
    fileExists,   \* whether .issue_tracker.json exists
    file,         \* the array the file holds (<< >> while it does not exist)
    torn,         \* whether the file is cut short: truncated, not yet rewritten
    proc,         \* per invocation: its position and its local variables
    hist,         \* the ids add has assigned: ever, and since the last clear
    world         \* the helper outputs and the environment, where they are fixed

vars == << fileExists, file, torn, proc, hist, world >>

\* An invocation that has not started; the fields are the locals of the
\* command functions, out is what the invocation reports, wrote whether it
\* has written the store file.
Idle ==
    [pc |-> "idle", cmd |-> "none", title |-> << >>, id |-> 0,
     filterLabel |-> << >>, showClosed |-> FALSE, format |-> "",
     issues |-> << >>, idx |-> 0, count |-> 0,
     token |-> "", owner |-> "", repo |-> "", tier |-> 0,
     attempts |-> << >>, shown |-> << >>, out |-> "", wrote |-> FALSE]

\* The reports after which log.Fatal ends the process with a failure.
Fatal ==
    { "EmptyTitle", "InvalidID", "IssueNotFound", "UnknownFormat",
      "CredentialsUnavailable", "StoreCorrupt" }

Quiet ==
    \A q \in Procs : proc[q].pc = "idle"

\* The value of world where each push draws what the helper and the
\* environment yield as it starts.
Drawn == "drawn"

Init ==
    /\ fileExists \in BOOLEAN
    /\ file = << >>
    /\ torn = FALSE
    /\ world = Drawn
    /\ proc = [p \in Procs |-> Idle]
    /\ hist = [ever |-> {}, sinceClear |-> {}]

(***************************************************************************)
(* The store                                                               *)
(***************************************************************************)
\* loadIssues(): an absent file is an empty store.
loadIssues ==
    IF ~fileExists THEN << >> ELSE file

\* json.Unmarshal fails on a file that is cut short: "could not parse
\* database file".
loadFails ==
    fileExists /\ torn

\* saveIssues(issues): the file is rewritten as a whole.
saveIssues(issues) ==
    /\ file' = issues
    /\ fileExists' = TRUE
    /\ torn' = FALSE

(***************************************************************************)
(* add                                                                     *)
(***************************************************************************)
\* MaxIDFrom taking the id of the last issue for the maximum.
MaxIDFrom_LastID(issues, k, maxID) ==
    IF issues = << >> THEN maxID ELSE issues[Len(issues)].id

\* The loop of addIssue from element k on.
RECURSIVE MaxIDFrom(_, _, _)
MaxIDFrom(issues, k, maxID) ==
    IF k > Len(issues) THEN maxID
    ELSE MaxIDFrom(issues, k + 1,
                   IF issues[k].id > maxID THEN issues[k].id ELSE maxID)

\* newIssue without the increment of maxID.
newIssue_NoIncrement(issues, title, now) ==
    autoLabel([id |-> MaxIDFrom(issues, 1, 0), title |-> title,
               status |-> statusOpen, labels |-> << >>, created_at |-> now])

newIssue(issues, title, now) ==
    autoLabel([id |-> MaxIDFrom(issues, 1, 0) + 1, title |-> title,
               status |-> statusOpen, labels |-> << >>, created_at |-> now])

\* addIssue up to and including loadIssues.
AddLoad(p, title) ==
    /\ proc[p].pc = "idle"
    /\ IF title = << >>
       THEN proc' = [proc EXCEPT ![p] =
                [@ EXCEPT !.pc = "done", !.cmd = "add", !.out = "EmptyTitle"]]
       ELSE IF loadFails
       THEN proc' = [proc EXCEPT ![p] =
                [@ EXCEPT !.pc = "done", !.cmd = "add", !.title = title,
                          !.out = "StoreCorrupt"]]
       ELSE /\ Len(loadIssues) < MaxStore
            /\ proc' = [proc EXCEPT ![p] =
                [@ EXCEPT !.pc = "add_loaded", !.cmd = "add", !.title = title,
                          !.issues = loadIssues]]
    /\ UNCHANGED << fileExists, file, torn, hist, world >>
\* AddSave reading the store again before it appends and saves.
AddSave_Reload(p) ==
    /\ proc[p].pc = "add_loaded"
    /\ \E now \in Times :
          LET new    == newIssue(loadIssues, proc[p].title, now)
              issues == Append(loadIssues, new)
          IN  /\ saveIssues(issues)
              /\ proc' = [proc EXCEPT ![p] =
                    [@ EXCEPT !.pc = "done", !.issues = issues,
                              !.out = "added", !.wrote = TRUE]]
              /\ hist' = [ever |-> hist.ever \cup {new.id},
                          sinceClear |-> hist.sinceClear \cup {new.id}]
    /\ UNCHANGED world

\* addIssue from the id computation to the report.
AddSave(p) ==
    /\ proc[p].pc = "add_loaded"
    /\ \E now \in Times :
          LET new    == newIssue(proc[p].issues, proc[p].title, now)
              issues == Append(proc[p].issues, new)
          IN  /\ saveIssues(issues)
              /\ proc' = [proc EXCEPT ![p] =
                    [@ EXCEPT !.pc = "done", !.issues = issues,
                              !.out = "added", !.wrote = TRUE]]
              /\ hist' = [ever |-> hist.ever \cup {new.id},
                          sinceClear |-> hist.sinceClear \cup {new.id}]
    /\ UNCHANGED world

(***************************************************************************)
(* list                                                                    *)
(***************************************************************************)
\* What one printed line shows of an issue.
Line(issue) ==
    [marker |-> IF issue.status = statusOpen THEN "open" ELSE "done",
     id |-> issue.id, title |-> issue.title, labels |-> issue.labels]
\* FoundLabel comparing as strings.EqualFold does, whatever the case.
FoundLabel_EqualFold(labels, filterLabel, k) ==
    \E i \in 1..Len(labels) :
        /\ Len(labels[i]) = Len(filterLabel)
        /\ \A c \in 1..Len(filterLabel) : Fold(labels[i][c]) = Fold(filterLabel[c])

\* The inner loop of listIssues: found, from label k on.
RECURSIVE FoundLabel(_, _, _)
FoundLabel(labels, filterLabel, k) ==
    IF k > Len(labels) THEN FALSE
    ELSE IF labels[k] = filterLabel THEN TRUE
    ELSE FoundLabel(labels, filterLabel, k + 1)

\* The outer loop of listIssues from element k on: the lines printed.
RECURSIVE ListFrom(_, _, _, _)
ListFrom(issues, filterLabel, showClosed, k) ==
    IF k > Len(issues) THEN << >>
    ELSE LET issue == issues[k]
             rest  == ListFrom(issues, filterLabel, showClosed, k + 1)
         IN  IF ~showClosed /\ issue.status = statusClosed THEN rest
             ELSE IF filterLabel # << >> /\ ~FoundLabel(issue.labels, filterLabel, 1)
                  THEN rest
             ELSE << Line(issue) >> \o rest

ListIssues(p, filterLabel, showClosed) ==
    /\ proc[p].pc = "idle"
    /\ LET shown == ListFrom(loadIssues, filterLabel, showClosed, 1)
       IN  IF loadFails
           THEN proc' = [proc EXCEPT ![p] =
              [@ EXCEPT !.pc = "done", !.cmd = "list",
                        !.filterLabel = filterLabel, !.showClosed = showClosed,
                        !.out = "StoreCorrupt"]]
           ELSE proc' = [proc EXCEPT ![p] =
              [@ EXCEPT !.pc = "done", !.cmd = "list",
                        !.filterLabel = filterLabel, !.showClosed = showClosed,
                        !.issues = loadIssues, !.shown = shown,
                        !.count = Len(shown),
                        !.out = IF Len(shown) = 0 THEN "no_issues" ELSE "listed"]]
    /\ UNCHANGED << fileExists, file, torn, hist, world >>

(***************************************************************************)
(* close                                                                   *)
(***************************************************************************)
\* closeIssue up to and including loadIssues.
CloseLoad(p, idStr) ==
    /\ proc[p].pc = "idle"
    /\ LET r == Atoi(idStr)
       IN  IF ~r.ok
           THEN proc' = [proc EXCEPT ![p] =
                   [@ EXCEPT !.pc = "done", !.cmd = "close", !.out = "InvalidID"]]
           ELSE IF loadFails
           THEN proc' = [proc EXCEPT ![p] =
                   [@ EXCEPT !.pc = "done", !.cmd = "close", !.id = r.val,
                             !.out = "StoreCorrupt"]]
           ELSE proc' = [proc EXCEPT ![p] =
                   [@ EXCEPT !.pc = "close_loaded", !.cmd = "close",
                             !.id = r.val, !.issues = loadIssues]]
    /\ UNCHANGED << fileExists, file, torn, hist, world >>
\* FindID stopping at the last issue when no issue has the id.
FindID_LastWhenMissing(issues, id, k) ==
    IF \E i \in 1..Len(issues) : issues[i].id = id
    THEN CHOOSE i \in 1..Len(issues) :
            issues[i].id = id /\ \A j \in 1..(i - 1) : issues[j].id # id
    ELSE Len(issues)

\* The index the loop of closeIssue stops at: the first issue with the id,
\* 0 when there is none.
RECURSIVE FindID(_, _, _)
FindID(issues, id, k) ==
    IF k > Len(issues) THEN 0
    ELSE IF issues[k].id = id THEN k
    ELSE FindID(issues, id, k + 1)
\* CloseFinish as a toggle: closing a closed issue opens it again.
CloseFinish_Toggle(p) ==
    /\ proc[p].pc = "close_loaded"
    /\ LET i == FindID(proc[p].issues, proc[p].id, 1)
       IN  IF i = 0
           THEN /\ proc' = [proc EXCEPT ![p] =
                      [@ EXCEPT !.pc = "done", !.out = "IssueNotFound"]]
                /\ UNCHANGED << fileExists, file, torn >>
           ELSE LET issues == [proc[p].issues EXCEPT ![i].status =
                                  IF @ = statusClosed THEN statusOpen ELSE statusClosed]
                IN  /\ saveIssues(issues)
                    /\ proc' = [proc EXCEPT ![p] =
                          [@ EXCEPT !.pc = "done", !.issues = issues,
                                    !.out = "closed", !.wrote = TRUE]]
    /\ UNCHANGED << hist, world >>

\* CloseFinish without the test for an issue that is closed already.
CloseFinish_NoClosedTest(p) ==
    /\ proc[p].pc = "close_loaded"
    /\ LET i == FindID(proc[p].issues, proc[p].id, 1)
       IN  IF i = 0
           THEN /\ proc' = [proc EXCEPT ![p] =
                      [@ EXCEPT !.pc = "done", !.out = "IssueNotFound"]]
                /\ UNCHANGED << fileExists, file, torn >>
           ELSE LET issues == [proc[p].issues EXCEPT ![i].status = statusClosed]
                IN  /\ saveIssues(issues)
                    /\ proc' = [proc EXCEPT ![p] =
                          [@ EXCEPT !.pc = "done", !.issues = issues,
                                    !.out = "closed", !.wrote = TRUE]]
    /\ UNCHANGED << hist, world >>
\* CloseFinish tagging the issue it closes, the label put last.
CloseFinish_TagsArchived(p) ==
    /\ proc[p].pc = "close_loaded"
    /\ LET i == FindID(proc[p].issues, proc[p].id, 1)
       IN  IF i = 0
           THEN /\ proc' = [proc EXCEPT ![p] =
                      [@ EXCEPT !.pc = "done", !.out = "IssueNotFound"]]
                /\ UNCHANGED << fileExists, file, torn >>
           ELSE IF proc[p].issues[i].status = statusClosed
           THEN /\ proc' = [proc EXCEPT ![p] =
                      [@ EXCEPT !.pc = "done", !.out = "already_closed"]]
                /\ UNCHANGED << fileExists, file, torn >>
           ELSE LET issues == [proc[p].issues EXCEPT
                                  ![i].status = statusClosed,
                                  ![i].labels =
                                      Append(@, << "a", "r", "c", "h", "i", "v", "e", "d" >>)]
                IN  /\ saveIssues(issues)
                    /\ proc' = [proc EXCEPT ![p] =
                          [@ EXCEPT !.pc = "done", !.issues = issues,
                                    !.out = "closed", !.wrote = TRUE]]
    /\ UNCHANGED << hist, world >>
\* CloseFinish without the return that ends the loop: every open issue with
\* the id is closed.
CloseFinish_NoReturn(p) ==
    /\ proc[p].pc = "close_loaded"
    /\ LET i == FindID(proc[p].issues, proc[p].id, 1)
       IN  IF i = 0
           THEN /\ proc' = [proc EXCEPT ![p] =
                      [@ EXCEPT !.pc = "done", !.out = "IssueNotFound"]]
                /\ UNCHANGED << fileExists, file, torn >>
           ELSE IF proc[p].issues[i].status = statusClosed
           THEN /\ proc' = [proc EXCEPT ![p] =
                      [@ EXCEPT !.pc = "done", !.out = "already_closed"]]
                /\ UNCHANGED << fileExists, file, torn >>
           ELSE LET issues == [j \in 1..Len(proc[p].issues) |->
                                  IF proc[p].issues[j].id = proc[p].id
                                  THEN [proc[p].issues[j] EXCEPT
                                           !.status = statusClosed]
                                  ELSE proc[p].issues[j]]
                IN  /\ saveIssues(issues)
                    /\ proc' = [proc EXCEPT ![p] =
                          [@ EXCEPT !.pc = "done", !.issues = issues,
                                    !.out = "closed", !.wrote = TRUE]]
    /\ UNCHANGED << hist, world >>

\* closeIssue from the loop to the report.
CloseFinish(p) ==
    /\ proc[p].pc = "close_loaded"
    /\ LET i == FindID(proc[p].issues, proc[p].id, 1)
       IN  IF i = 0
           THEN /\ proc' = [proc EXCEPT ![p] =
                      [@ EXCEPT !.pc = "done", !.out = "IssueNotFound"]]
                /\ UNCHANGED << fileExists, file, torn >>
           ELSE IF proc[p].issues[i].status = statusClosed
           THEN /\ proc' = [proc EXCEPT ![p] =
                      [@ EXCEPT !.pc = "done", !.out = "already_closed"]]
                /\ UNCHANGED << fileExists, file, torn >>
           ELSE LET issues == [proc[p].issues EXCEPT ![i].status = statusClosed]
                IN  /\ saveIssues(issues)
                    /\ proc' = [proc EXCEPT ![p] =
                          [@ EXCEPT !.pc = "done", !.issues = issues,
                                    !.out = "closed", !.wrote = TRUE]]
    /\ UNCHANGED << hist, world >>

(***************************************************************************)
(* publish                                                                 *)
(***************************************************************************)
\* PublishIssues rendering JSON for a format it does not know.
PublishIssues_DefaultJSON(p, format) ==
    /\ proc[p].pc = "idle"
    /\ IF loadFails
       THEN proc' = [proc EXCEPT ![p] =
               [@ EXCEPT !.pc = "done", !.cmd = "publish", !.format = format,
                         !.out = "StoreCorrupt"]]
       ELSE proc' = [proc EXCEPT ![p] =
               [@ EXCEPT !.pc = "done", !.cmd = "publish", !.format = format,
                         !.issues = loadIssues, !.shown = loadIssues,
                         !.out = "published"]]
    /\ UNCHANGED << fileExists, file, torn, hist, world >>

\* Both formats render every issue of the store, in store order, with all
\* its fields; shown is what is rendered.
PublishIssues(p, format) ==
    /\ proc[p].pc = "idle"
    /\ IF loadFails
       THEN proc' = [proc EXCEPT ![p] =
               [@ EXCEPT !.pc = "done", !.cmd = "publish", !.format = format,
                         !.out = "StoreCorrupt"]]
       ELSE IF format \in {"markdown", "json"}
       THEN proc' = [proc EXCEPT ![p] =
               [@ EXCEPT !.pc = "done", !.cmd = "publish", !.format = format,
                         !.issues = loadIssues, !.shown = loadIssues,
                         !.out = "published"]]
       ELSE proc' = [proc EXCEPT ![p] =
               [@ EXCEPT !.pc = "done", !.cmd = "publish", !.format = format,
                         !.issues = loadIssues, !.out = "UnknownFormat"]]
    /\ UNCHANGED << fileExists, file, torn, hist, world >>

(***************************************************************************)
(* push                                                                    *)
(***************************************************************************)
\* PushResolve without the test of the environment values.
PushResolve_NoEnvTest(p, ghRepo, ghToken, env) ==
    /\ proc[p].pc = "idle"
    /\ LET split == ~ghRepo.err /\ Len(ghRepo.parts) = 2
           owner == IF split THEN ghRepo.parts[1] ELSE ""
           repo  == IF split THEN ghRepo.parts[2] ELSE ""
           token == IF ~ghToken.err THEN ghToken.out ELSE ""
       IN  IF owner # "" /\ repo # "" /\ token # ""
           THEN proc' = [proc EXCEPT ![p] =
                   [@ EXCEPT !.pc = "push_resolved", !.cmd = "push", !.tier = 1,
                             !.token = token, !.owner = owner, !.repo = repo]]
           ELSE proc' = [proc EXCEPT ![p] =
                   [@ EXCEPT !.pc = "push_resolved", !.cmd = "push", !.tier = 2,
                             !.token = env.token, !.owner = env.owner,
                             !.repo = env.repo]]
    /\ UNCHANGED << fileExists, file, torn, hist, world >>

\* PushResolve with each value falling back to the environment by itself.
PushResolve_PerValueFallback(p, ghRepo, ghToken, env) ==
    /\ proc[p].pc = "idle"
    /\ LET split  == ~ghRepo.err /\ Len(ghRepo.parts) = 2
           owner  == IF split THEN ghRepo.parts[1] ELSE ""
           repo   == IF split THEN ghRepo.parts[2] ELSE ""
           token  == IF ~ghToken.err THEN ghToken.out ELSE ""
           owner2 == IF owner # "" THEN owner ELSE env.owner
           repo2  == IF repo # "" THEN repo ELSE env.repo
           token2 == IF token # "" THEN token ELSE env.token
       IN  IF token2 = "" \/ owner2 = "" \/ repo2 = ""
           THEN proc' = [proc EXCEPT ![p] =
                   [@ EXCEPT !.pc = "done", !.cmd = "push",
                             !.out = "CredentialsUnavailable"]]
           ELSE proc' = [proc EXCEPT ![p] =
                   [@ EXCEPT !.pc = "push_resolved", !.cmd = "push",
                             !.tier = IF owner # "" /\ repo # "" /\ token # ""
                                      THEN 1 ELSE 2,
                             !.token = token2, !.owner = owner2, !.repo = repo2]]
    /\ UNCHANGED << fileExists, file, torn, hist, world >>

\* pushToGithub up to the creation of the client.
PushResolve(p, ghRepo, ghToken, env) ==
    /\ proc[p].pc = "idle"
    /\ LET split == ~ghRepo.err /\ Len(ghRepo.parts) = 2
           owner == IF split THEN ghRepo.parts[1] ELSE ""
           repo  == IF split THEN ghRepo.parts[2] ELSE ""
           token == IF ~ghToken.err THEN ghToken.out ELSE ""
       IN  IF owner # "" /\ repo # "" /\ token # ""
           THEN proc' = [proc EXCEPT ![p] =
                   [@ EXCEPT !.pc = "push_resolved", !.cmd = "push", !.tier = 1,
                             !.token = token, !.owner = owner, !.repo = repo]]
           ELSE IF env.token = "" \/ env.owner = "" \/ env.repo = ""
           THEN proc' = [proc EXCEPT ![p] =
                   [@ EXCEPT !.pc = "done", !.cmd = "push",
                             !.out = "CredentialsUnavailable"]]
           ELSE proc' = [proc EXCEPT ![p] =
                   [@ EXCEPT !.pc = "push_resolved", !.cmd = "push", !.tier = 2,
                             !.token = env.token, !.owner = env.owner,
                             !.repo = env.repo]]
    /\ UNCHANGED << fileExists, file, torn, hist, world >>

\* localIssues, err := loadIssues()
PushLoad(p) ==
    /\ proc[p].pc = "push_resolved"
    /\ IF loadFails
       THEN proc' = [proc EXCEPT ![p] =
               [@ EXCEPT !.pc = "done", !.out = "StoreCorrupt"]]
       ELSE proc' = [proc EXCEPT ![p] =
               [@ EXCEPT !.pc = "push_loop", !.issues = loadIssues, !.idx = 1]]
    /\ UNCHANGED << fileExists, file, torn, hist, world >>
\* PushIssue with the loop left at the first failed create.
PushIssue_BreakOnFailure(p) ==
    /\ proc[p].pc = "push_loop"
    /\ proc[p].idx <= Len(proc[p].issues)
    /\ LET issue == proc[p].issues[proc[p].idx]
       IN  IF issue.status = statusOpen
           THEN \E ok \in BOOLEAN :
                   proc' = [proc EXCEPT ![p] =
                      [@ EXCEPT !.idx = IF ok THEN @ + 1 ELSE Len(proc[p].issues) + 1,
                                !.count = IF ok THEN @ + 1 ELSE @,
                                !.attempts = Append(@,
                                    [owner |-> proc[p].owner, repo |-> proc[p].repo,
                                     title |-> issue.title, labels |-> issue.labels,
                                     ok |-> ok])]]
           ELSE proc' = [proc EXCEPT ![p] = [@ EXCEPT !.idx = @ + 1]]
    /\ UNCHANGED << fileExists, file, torn, hist, world >>
\* PushIssue saving, after each create that succeeds, the issues still to
\* be pushed.
PushIssue_SavesProgress(p) ==
    /\ proc[p].pc = "push_loop"
    /\ proc[p].idx <= Len(proc[p].issues)
    /\ LET issue == proc[p].issues[proc[p].idx]
       IN  IF issue.status = statusOpen
           THEN \E ok \in BOOLEAN :
                   /\ proc' = [proc EXCEPT ![p] =
                         [@ EXCEPT !.idx = @ + 1,
                                   !.count = IF ok THEN @ + 1 ELSE @,
                                   !.attempts = Append(@,
                                       [owner |-> proc[p].owner, repo |-> proc[p].repo,
                                        title |-> issue.title, labels |-> issue.labels,
                                        ok |-> ok])]]
                   /\ IF ok
                      THEN saveIssues(SubSeq(proc[p].issues, proc[p].idx + 1,
                                             Len(proc[p].issues)))
                      ELSE UNCHANGED << fileExists, file, torn >>
           ELSE /\ proc' = [proc EXCEPT ![p] = [@ EXCEPT !.idx = @ + 1]]
                /\ UNCHANGED << fileExists, file, torn >>
    /\ UNCHANGED << hist, world >>

\* One iteration of the loop over localIssues; ok is whether
\* client.Issues.Create succeeds.
PushIssue(p) ==
    /\ proc[p].pc = "push_loop"
    /\ proc[p].idx <= Len(proc[p].issues)
    /\ LET issue == proc[p].issues[proc[p].idx]
       IN  IF issue.status = statusOpen
           THEN \E ok \in BOOLEAN :
                   proc' = [proc EXCEPT ![p] =
                      [@ EXCEPT !.idx = @ + 1,
                                !.count = IF ok THEN @ + 1 ELSE @,
                                !.attempts = Append(@,
                                    [owner |-> proc[p].owner, repo |-> proc[p].repo,
                                     title |-> issue.title, labels |-> issue.labels,
                                     ok |-> ok])]]
           ELSE proc' = [proc EXCEPT ![p] = [@ EXCEPT !.idx = @ + 1]]
    /\ UNCHANGED << fileExists, file, torn, hist, world >>
\* PushClear with the clear made conditional on every create succeeding.
PushClear_OnlyIfAllCreated(p) ==
    /\ proc[p].pc = "push_loop"
    /\ proc[p].idx > Len(proc[p].issues)
    /\ IF proc[p].count = Len(proc[p].attempts)
       THEN saveIssues(<< >>)
       ELSE UNCHANGED << fileExists, file, torn >>
    /\ proc' = [proc EXCEPT ![p] =
          [@ EXCEPT !.pc = "done", !.out = "pushed", !.wrote = TRUE]]
    /\ hist' = [hist EXCEPT !.sinceClear = {}]
    /\ UNCHANGED world
\* PushClear reading the store again and keeping what the push did not load.
PushClear_KeepsUnloaded(p) ==
    /\ proc[p].pc = "push_loop"
    /\ proc[p].idx > Len(proc[p].issues)
    /\ saveIssues(SubSeq(loadIssues, Len(proc[p].issues) + 1, Len(loadIssues)))
    /\ proc' = [proc EXCEPT ![p] =
          [@ EXCEPT !.pc = "done", !.out = "pushed", !.wrote = TRUE]]
    /\ hist' = [hist EXCEPT !.sinceClear = {}]
    /\ UNCHANGED world

\* After the loop: saveIssues([]Issue{}) and the report.
PushClear(p) ==
    /\ proc[p].pc = "push_loop"
    /\ proc[p].idx > Len(proc[p].issues)
    /\ saveIssues(<< >>)
    /\ proc' = [proc EXCEPT ![p] =
          [@ EXCEPT !.pc = "done", !.out = "pushed", !.wrote = TRUE]]
    /\ hist' = [hist EXCEPT !.sinceClear = {}]
    /\ UNCHANGED world

(***************************************************************************)
(* Specifications                                                          *)
(***************************************************************************)
\* The process ends; the next invocation starts afresh.
Exit(p) ==
    /\ proc[p].pc = "done"
    /\ proc' = [proc EXCEPT ![p] = Idle]
    /\ UNCHANGED << fileExists, file, torn, hist, world >>

\* An invocation starts while no other is running.
Start(p) ==
    /\ Quiet
    /\ \/ \E title \in Titles : AddLoad(p, title)
       \/ \E filterLabel \in LabelFilters, showClosed \in BOOLEAN :
             ListIssues(p, filterLabel, showClosed)
       \/ \E idStr \in IdStrs : CloseLoad(p, idStr)
       \/ \E format \in Formats : PublishIssues(p, format)
       \/ \E ghRepo \in GhRepoOutputs, ghToken \in GhTokenOutputs,
             env \in Environments : PushResolve(p, ghRepo, ghToken, env)

Step(p) ==
    \/ AddSave(p)
    \/ CloseFinish(p)
    \/ PushLoad(p)
    \/ PushIssue(p)
    \/ PushClear(p)

\* Invocations run one at a time, any number of them, from an absent or
\* empty store.
Next ==
    \E p \in Procs : Start(p) \/ Step(p) \/ Exit(p)

Spec == Init /\ [][Next]_vars

\* The label lists of the issues of an arbitrary store: sorted, no duplicates.
AnyLabels ==
    { << >>, << L_bug >>, << L_Bug, L_feature >> }

\* The issues of an arbitrary store, but for their ids.
AnyIssues ==
    { [id |-> 0, title |-> T_todo, status |-> s, labels |-> l, created_at |-> 1] :
        s \in {statusOpen, statusClosed}, l \in AnyLabels }

\* The stores a user may hold: up to MaxAnyLen issues in any order, their ids
\* positive and distinct.
AnyStores ==
    UNION { { [i \in 1..n |-> [body[i] EXCEPT !.id = ids[i]]] :
                ids \in { f \in [1..n -> 1..(MaxAnyLen + 1)] :
                            \A i, j \in 1..n : i # j => f[i] # f[j] },
                body \in [1..n -> AnyIssues] } :
            n \in 0..MaxAnyLen }

InitOne ==
    /\ file \in AnyStores
    /\ fileExists \in (IF file = << >> THEN BOOLEAN ELSE {TRUE})
    /\ torn = FALSE
    /\ world = Drawn
    /\ proc = [p \in Procs |-> Idle]
    /\ hist = [ever |-> {}, sinceClear |-> {}]

\* One of add, list, close and publish starts, with any of the arguments.
StartOne(p) ==
    /\ Quiet
    /\ \/ \E title \in AllTitles : AddLoad(p, title)
       \/ \E filterLabel \in LabelFilters, showClosed \in BOOLEAN :
             ListIssues(p, filterLabel, showClosed)
       \/ \E idStr \in IdStrs : CloseLoad(p, idStr)
       \/ \E format \in Formats : PublishIssues(p, format)

NextOne ==
    \/ StartOne("p1")
    \/ AddSave("p1")
    \/ CloseFinish("p1")

\* A single invocation of add, list, close or publish on an arbitrary store.
SpecOne == InitOne /\ [][NextOne]_vars

(***************************************************************************)
(* A single push in a fixed world                                         *)
(***************************************************************************)
I_1 ==
    [id |-> 1, title |-> T_bug, status |-> statusOpen, labels |-> << L_bug >>,
     created_at |-> 1]

I_2 ==
    [id |-> 2, title |-> T_todo, status |-> statusOpen, labels |-> << >>,
     created_at |-> 2]

Closed(issue) ==
    [issue EXCEPT !.status = statusClosed]

\* Some stores that add and close leave behind.
SomeStores ==
    { << >>, << I_1 >>, << I_1, I_2 >>, << Closed(I_1), I_2 >>,
      << I_1, Closed(I_2) >> }

\* What the helper and the environment may yield to a push.
Worlds ==
    [ghRepo : GhRepoOutputs, ghToken : GhTokenOutputs, env : Environments]

InitCred ==
    /\ file \in SomeStores
    /\ fileExists \in (IF file = << >> THEN BOOLEAN ELSE {TRUE})
    /\ torn = FALSE
    /\ proc = [p \in Procs |-> Idle]
    /\ hist = [ever |-> {}, sinceClear |-> {}]
    /\ world \in Worlds

NextCred ==
    \/ PushResolve("p1", world.ghRepo, world.ghToken, world.env)
    \/ PushLoad("p1")
    \/ PushIssue("p1")
    \/ PushClear("p1")

\* A single push, with the helper outputs and the environment it meets
\* fixed at the start.
SpecCred == InitCred /\ [][NextCred]_vars

(***************************************************************************)
(* autoLabel by itself                                                     *)
(***************************************************************************)
\* The label lists of the issue given to autoLabel: any order, duplicates.
LabelLists ==
    { << >>, << L_bug >>, << L_feature, L_bug >>, << L_bug, L_bug >>,
      << L_Bug >>, << L_testing, L_chore, L_bug >>, << L_bu, L_feature >> }

\* issues of the invocation holds the issue given and, after it, its value
\* after each call of autoLabel.
InitLabel ==
    /\ file = << >>
    /\ fileExists = FALSE
    /\ torn = FALSE
    /\ hist = [ever |-> {}, sinceClear |-> {}]
    /\ world = Drawn
    /\ \E title \in AllTitles, labels \in LabelLists :
          proc = [p \in Procs |->
                    IF p = "p1"
                    THEN [Idle EXCEPT !.issues =
                             << [id |-> 1, title |-> title, status |-> statusOpen,
                                 labels |-> labels, created_at |-> 1] >>]
                    ELSE Idle]

\* autoLabel(&issue), called up to twice.
CallAutoLabel(p) ==
    /\ Len(proc[p].issues) \in {1, 2}
    /\ proc' = [proc EXCEPT ![p].issues =
                   Append(@, autoLabel(@[Len(@)]))]
    /\ UNCHANGED << fileExists, file, torn, hist, world >>

NextLabel ==
    CallAutoLabel("p1")

\* autoLabel applied once and twice to an issue of any title and labels.
SpecLabel == InitLabel /\ [][NextLabel]_vars

(***************************************************************************)
(* A single close on any store the program can parse                       *)
(***************************************************************************)
\* The issues of a parsable store: ids may repeat, as nothing in loadIssues
\* tests them.
ParsedIssues ==
    { [id |-> i, title |-> T_todo, status |-> s, labels |-> l, created_at |-> c] :
        i \in {1, 2}, s \in {statusOpen, statusClosed},
        l \in { << >>, << L_bug >> }, c \in Times }

ParsedStores ==
    UNION { [1..n -> ParsedIssues] : n \in 0..MaxAnyLen }

InitClose ==
    /\ file \in ParsedStores
    /\ fileExists \in (IF file = << >> THEN BOOLEAN ELSE {TRUE})
    /\ torn = FALSE
    /\ world = Drawn
    /\ proc = [p \in Procs |-> Idle]
    /\ hist = [ever |-> {}, sinceClear |-> {}]

NextClose ==
    \/ \E idStr \in IdStrs : CloseLoad("p1", idStr)
    \/ CloseFinish("p1")

\* A single invocation of close on any parsable store.
SpecClose == InitClose /\ [][NextClose]_vars

(***************************************************************************)
(* Two invocations at once                                                 *)
(***************************************************************************)
\* gh yields the repository and the token.
GhWorld ==
    [ghRepo  |-> [err |-> FALSE, parts |-> << "ghowner", "ghrepo" >>],
     ghToken |-> [err |-> FALSE, out |-> "ghtoken"],
     env     |-> [token |-> "", owner |-> "", repo |-> ""]]

InitConc ==
    /\ file \in SomeStores
    /\ fileExists \in (IF file = << >> THEN BOOLEAN ELSE {TRUE})
    /\ torn = FALSE
    /\ world = GhWorld
    /\ proc = [p \in Procs |-> Idle]
    /\ hist = [ever |-> {}, sinceClear |-> {}]

\* An invocation starts, whatever the other one is doing: nothing in main
\* or in loadIssues waits for anything.
StartConc(p) ==
    \/ \E title \in Titles : AddLoad(p, title)
    \/ ListIssues(p, << >>, TRUE)
    \/ \E idStr \in { << "1" >>, << "2" >> } : CloseLoad(p, idStr)
    \/ PushResolve(p, world.ghRepo, world.ghToken, world.env)

\* The next step of invocation p is a call of saveIssues.
WillSave(p) ==
    \/ proc[p].pc = "add_loaded"
    \/ /\ proc[p].pc = "close_loaded"
       /\ LET i == FindID(proc[p].issues, proc[p].id, 1)
          IN  i # 0 /\ proc[p].issues[i].status = statusOpen
    \/ proc[p].pc = "push_loop" /\ proc[p].idx > Len(proc[p].issues)

\* ioutil.WriteFile has opened the file with O_TRUNC and has not written
\* all of the data yet: the file holds a part of the array. Taken only while
\* the other invocation holds no loaded copy, so that two writes never
\* overlap; what two overlapping writes leave is not modelled.
Truncate(p) ==
    /\ WillSave(p)
    /\ ~torn
    /\ \A q \in Procs \ {p} : proc[q].pc \in {"idle", "done", "push_resolved"}
    /\ file' = << >>
    /\ fileExists' = TRUE
    /\ torn' = TRUE
    /\ UNCHANGED << proc, hist, world >>

NextConc ==
    \E p \in Procs : StartConc(p) \/ Step(p) \/ Truncate(p)

\* Two invocations, one of each process, interleaved in every way.
SpecConc == InitConc /\ [][NextConc]_vars

(***************************************************************************)
(* A push that is terminated, and the push run after it                   *)
(***************************************************************************)
InitKill ==
    /\ file \in SomeStores
    /\ fileExists \in (IF file = << >> THEN BOOLEAN ELSE {TRUE})
    /\ torn = FALSE
    /\ world = GhWorld
    /\ proc = [p \in Procs |-> Idle]
    /\ hist = [ever |-> {}, sinceClear |-> {}]

\* The process of push p is terminated before the call of saveIssues that
\* clears the store; what it had done is kept for the record.
Kill(p) ==
    /\ proc[p].pc \in {"push_resolved", "push_loop"}
    /\ proc' = [proc EXCEPT ![p].pc = "killed"]
    /\ UNCHANGED << fileExists, file, torn, hist, world >>

\* The push p1 runs and may be terminated; the push p2 is run once p1 has
\* been terminated.
NextKill ==
    \/ PushResolve("p1", world.ghRepo, world.ghToken, world.env)
    \/ Kill("p1")
    \/ /\ proc["p1"].pc = "killed"
       /\ PushResolve("p2", world.ghRepo, world.ghToken, world.env)
    \/ \E p \in Procs : PushLoad(p) \/ PushIssue(p) \/ PushClear(p)

SpecKill == InitKill /\ [][NextKill]_vars

(***************************************************************************)
(* Properties                                                              *)
(***************************************************************************)
IdsOf(issues) ==
    { issues[i].id : i \in 1..Len(issues) }

MaxOf(S) ==
    CHOOSE m \in S : \A x \in S : x <= m

\* The step in which invocation p of add saves and reports.
AddStep(p) ==
    proc[p].pc = "add_loaded" /\ proc'[p].pc = "done"

\* The step in which invocation p of close ends.
CloseStep(p) ==
    proc[p].pc = "close_loaded" /\ proc'[p].pc = "done"

\* Invocation p of push has got past credential resolution and has ended.
PushDone(p) ==
    proc[p].cmd = "push" /\ proc[p].pc = "done" /\ proc[p].out = "pushed"

\* C1: when a push that got past credential resolution and loading has
\* finished, the store file exists and holds the empty array, whatever the
\* outcomes of the remote creates and whatever the store held.
C1_PushLeavesEmptyStore ==
    \A p \in Procs :
        (proc[p].cmd = "push" /\ proc[p].pc = "done"
            /\ proc[p].out # "CredentialsUnavailable")
        => fileExists /\ file = << >>

\* A push has finished on a store that held open and closed issues, with one
\* create succeeding and another failing.
C1_Witness ==
    \E p \in Procs :
        /\ PushDone(p)
        /\ \E i \in 1..Len(proc[p].issues) : proc[p].issues[i].status = statusClosed
        /\ \E a, b \in 1..Len(proc[p].attempts) :
              proc[p].attempts[a].ok /\ ~proc[p].attempts[b].ok
        /\ file = << >>

\* The creates a push owes for a sequence of issues: one per open issue, in
\* order, with the issue's title and labels.
RECURSIVE OwedCreates(_)
OwedCreates(issues) ==
    IF issues = << >> THEN << >>
    ELSE (IF Head(issues).status = statusOpen
          THEN << [title |-> Head(issues).title, labels |-> Head(issues).labels] >>
          ELSE << >>) \o OwedCreates(Tail(issues))

AttemptsMade(p) ==
    [a \in 1..Len(proc[p].attempts) |->
        [title |-> proc[p].attempts[a].title, labels |-> proc[p].attempts[a].labels]]

\* C2: during a push, the creates attempted so far are exactly one per open
\* issue of the loaded store among those the loop has passed, in store order
\* and with the issue's title and labels; at the end of the push this is one
\* per open issue of the whole loaded store, whichever creates failed, and
\* none for a closed issue.
C2_OneCreatePerOpenIssue ==
    \A p \in Procs :
        /\ proc[p].pc = "push_loop" =>
              /\ proc[p].issues = loadIssues
              /\ AttemptsMade(p) = OwedCreates(SubSeq(loadIssues, 1, proc[p].idx - 1))
        /\ (proc[p].cmd = "push" /\ proc[p].pc = "done"
               /\ proc[p].out # "CredentialsUnavailable") =>
              AttemptsMade(p) = OwedCreates(proc[p].issues)

\* A push has finished whose first create failed, with a closed issue in the
\* store after it and a create attempted for the open issue after that.
C2_Witness ==
    \E p \in Procs :
        /\ PushDone(p)
        /\ Len(proc[p].issues) = 3
        /\ proc[p].issues[1].status = statusOpen
        /\ proc[p].issues[2].status = statusClosed
        /\ proc[p].issues[3].status = statusOpen
        /\ Len(proc[p].attempts) = 2
        /\ ~proc[p].attempts[1].ok
        /\ proc[p].attempts[2].title = proc[p].issues[3].title

\* C3: add appends an issue whose id is 1 when the store is empty and
\* otherwise one plus the greatest id of the store.
C3_AddAssignsMaxPlusOne ==
    [][\A p \in Procs :
          AddStep(p) =>
             /\ Len(file') = Len(file) + 1
             /\ file'[Len(file')].id =
                   IF file = << >> THEN 1 ELSE 1 + MaxOf(IdsOf(file))]_vars

\* An add has finished on a store whose greatest id is that of its first
\* issue and not of its last.
C3_Witness ==
    \E p \in Procs :
        /\ proc[p].cmd = "add" /\ proc[p].out = "added"
        /\ Len(file) = 3
        /\ file[1].id > file[2].id
        /\ file[3].id = file[1].id + 1

\* C4: from an absent or empty store, with invocations run one at a time,
\* the ids of the store are pairwise distinct.
C4_IdsDistinct ==
    \A i, j \in 1..Len(file) : i # j => file[i].id # file[j].id

\* The store holds two issues, one of them closed, added after a push cleared
\* a store of three.
C4_Witness ==
    /\ Len(file) = 2
    /\ IdsOf(file) = {1, 2}
    /\ \E i \in 1..Len(file) : file[i].status = statusClosed
    /\ hist.ever = {1, 2, 3}

\* C5, as claimed: no add is ever assigned an id that an earlier add was
\* assigned.
C5_IdNeverReused ==
    [][\A p \in Procs :
          AddStep(p) => file'[Len(file')].id \notin hist.ever]_vars

\* C5, amended: an add is assigned an id greater than every id of the
\* store, so no id assigned since the store was last cleared; numbering
\* starts again at 1 once a push has cleared the store.
C5_IdNotReusedSinceClear ==
    [][\A p \in Procs :
          AddStep(p) =>
             /\ \A x \in IdsOf(file) : file'[Len(file')].id > x
             /\ file'[Len(file')].id \notin hist.sinceClear
             /\ file = << >> => file'[Len(file')].id = 1]_vars

\* After a clear, adds have been assigned again the ids 1 and 2 assigned
\* before it, while id 3 has not been assigned again.
C5_Witness ==
    \E p \in Procs :
        /\ proc[p].cmd = "add" /\ proc[p].out = "added"
        /\ hist.ever = {1, 2, 3}
        /\ hist.sinceClear = {1, 2}
        /\ IdsOf(file) = {1, 2}

StatusOK ==
    \A i \in 1..Len(file) : file[i].status \in {statusOpen, statusClosed}

\* C6: the status of every stored issue is open or closed; the issue add
\* appends is open; and in every step an issue that stays in the store keeps
\* its status or goes from open to closed, so a closed issue stays closed.
C6_StatusOnlyOpenToClosed ==
    /\ []StatusOK
    /\ [][/\ \A p \in Procs :
                AddStep(p) => file'[Len(file')].status = statusOpen
          /\ \A i \in 1..Len(file), j \in 1..Len(file') :
                file[i].id = file'[j].id =>
                   \/ file'[j].status = file[i].status
                   \/ file[i].status = statusOpen /\ file'[j].status = statusClosed]_vars

\* A close of a closed issue has ended, beside an open issue added after the
\* first was closed.
C6_Witness ==
    \E p \in Procs :
        /\ proc[p].cmd = "close" /\ proc[p].out = "already_closed"
        /\ Len(file) = 2
        /\ file[1].status = statusClosed
        /\ file[1].id = proc[p].id
        /\ file[2].status = statusOpen

\* The index of the first issue of the store with the id, 0 when none has it.
FirstWithID(issues, id) ==
    IF id \in IdsOf(issues)
    THEN CHOOSE i \in 1..Len(issues) :
            issues[i].id = id /\ \A j \in 1..(i - 1) : issues[j].id # id
    ELSE 0

\* C7: a close of an open issue sets its status to closed, saves and reports
\* success; a close of an issue that is closed already, as the second of two
\* closes of the same issue is, reports "already closed", is no failure,
\* writes nothing and leaves the store as it was.
C7_CloseTwice ==
    [][\A p \in Procs :
          CloseStep(p) =>
             LET i == FirstWithID(file, proc[p].id)
             IN  /\ (i # 0 /\ file[i].status = statusOpen) =>
                       /\ proc'[p].out = "closed"
                       /\ proc'[p].wrote
                       /\ file' = [file EXCEPT ![i].status = statusClosed]
                 /\ (i # 0 /\ file[i].status = statusClosed) =>
                       /\ proc'[p].out = "already_closed"
                       /\ proc'[p].out \notin Fatal
                       /\ ~proc'[p].wrote
                       /\ file' = file /\ fileExists' = fileExists]_vars

\* The second close of issue 2 has ended: the issue was closed by a first
\* close, and the store is as that close left it.
C7_Witness ==
    \E p \in Procs :
        /\ proc[p].cmd = "close" /\ proc[p].out = "already_closed"
        /\ proc[p].id = 2
        /\ ~proc[p].wrote
        /\ Len(file) = 3
        /\ file[2].id = 2 /\ file[2].status = statusClosed
        /\ file[3].status = statusOpen

\* C8: a close with a numeric id that no issue of the store has fails with
\* "issue not found", writes nothing and leaves the store as it was.
C8_CloseMissingID ==
    [][\A p \in Procs :
          (CloseStep(p) /\ proc[p].id \notin IdsOf(file)) =>
             /\ proc'[p].out = "IssueNotFound"
             /\ proc'[p].out \in Fatal
             /\ ~proc'[p].wrote
             /\ file' = file /\ fileExists' = fileExists]_vars

\* close 99 has failed on a store that holds open issues with other ids.
C8_Witness ==
    \E p \in Procs :
        /\ proc[p].cmd = "close" /\ proc[p].out = "IssueNotFound"
        /\ proc[p].id = 99
        /\ Len(file) = 2
        /\ file[2].status = statusOpen

\* The prefix table: each keyword with the label of its rule.
PrefixTable ==
    { << << "B", "U", "G" >>, L_bug >>,
      << << "F", "I", "X" >>, L_bug >>,
      << << "B", "U", "G", "F", "I", "X" >>, L_bug >>,
      << << "F", "E", "A", "T" >>, L_feature >>,
      << << "F", "E", "A", "T", "U", "R", "E" >>, L_feature >>,
      << << "D", "O", "C", "S" >>, L_documentation >>,
      << << "D", "O", "C", "U", "M", "E", "N", "T", "A", "T", "I", "O", "N" >>,
         L_documentation >>,
      << << "R", "E", "F", "A", "C", "T", "O", "R" >>, L_refactor >>,
      << << "T", "E", "S", "T" >>, L_testing >>,
      << << "T", "E", "S", "T", "S" >>, L_testing >>,
      << << "C", "H", "O", "R", "E" >>, L_chore >> }

\* The title, up to its first ":", with its letters in upper case; << >>
\* when it has no ":".
KeywordOf(title) ==
    IF \E k \in 1..Len(title) : title[k] = ":"
    THEN LET k == CHOOSE n \in 1..Len(title) :
                     title[n] = ":" /\ \A m \in 1..(n - 1) : title[m] # ":"
         IN  [i \in 1..(k - 1) |-> Fold(title[i])]
    ELSE << >>

ExpectedLabels(title) ==
    { e[2] : e \in { r \in PrefixTable : r[1] = KeywordOf(title) } }

\* C9: add with a non-empty title appends exactly one issue, whose title is
\* the given one unchanged, whose status is open and whose labels are those
\* of the rules whose keyword, in any case, starts the title and is followed
\* at once by ":"; "BUG: crash on save" gets the label bug alone, and a title
\* without such a prefix gets no label.
C9_AddAppendsLabelledIssue ==
    [][\A p \in Procs :
          AddStep(p) =>
             LET new == file'[Len(file')]
             IN  /\ Len(file') = Len(file) + 1
                 /\ SubSeq(file', 1, Len(file)) = file
                 /\ new.title = proc[p].title
                 /\ new.title # << >>
                 /\ new.status = statusOpen
                 /\ { new.labels[i] : i \in 1..Len(new.labels) }
                       = ExpectedLabels(new.title)
                 /\ new.title = T_bug => new.labels = << L_bug >>
                 /\ KeywordOf(new.title) = << >> => new.labels = << >>]_vars

\* "bugfix:" has been added to a store of two issues and has the label bug.
C9_Witness ==
    \E p \in Procs :
        /\ proc[p].cmd = "add" /\ proc[p].out = "added"
        /\ Len(file) = 3
        /\ file[3].title = << "b", "u", "g", "f", "i", "x", ":" >>
        /\ file[3].labels = << L_bug >>
        /\ file[3].status = statusOpen

\* The issues of the store that list is to show, in store order.
Listed(issues, filterLabel, showClosed) ==
    LET Keep(issue) ==
           /\ showClosed \/ issue.status = statusOpen
           /\ \/ filterLabel = << >>
              \/ \E i \in 1..Len(issue.labels) : issue.labels[i] = filterLabel
    IN  SelectSeq(issues, Keep)

\* C10: list shows exactly the issues of the store that are open, or any
\* when closed ones are asked for, and that hold the filter label, when one
\* is given, as one of their labels exactly; in store order.
C10_ListFilter ==
    \A p \in Procs :
        (proc[p].cmd = "list" /\ proc[p].pc = "done") =>
            LET want == Listed(file, proc[p].filterLabel, proc[p].showClosed)
            IN  /\ proc[p].shown = [i \in 1..Len(want) |-> Line(want[i])]
                /\ (proc[p].out = "no_issues") = (want = << >>)

\* list --label=feature has shown the second of two issues that hold the
\* label, the first being closed.
C10_Witness ==
    \E p \in Procs :
        /\ proc[p].cmd = "list" /\ proc[p].pc = "done"
        /\ proc[p].filterLabel = L_feature
        /\ ~proc[p].showClosed
        /\ Len(file) = 2
        /\ file[1].status = statusClosed /\ file[1].labels = << L_Bug, L_feature >>
        /\ file[2].status = statusOpen /\ file[2].labels = << L_Bug, L_feature >>
        /\ Len(proc[p].shown) = 1
        /\ proc[p].shown[1].id = file[2].id

\* The helper resolved owner, repository and token, none of them empty.
HelperComplete(w) ==
    /\ ~w.ghRepo.err
    /\ Len(w.ghRepo.parts) = 2
    /\ w.ghRepo.parts[1] # "" /\ w.ghRepo.parts[2] # ""
    /\ ~w.ghToken.err /\ w.ghToken.out # ""

EnvComplete(w) ==
    w.env.token # "" /\ w.env.owner # "" /\ w.env.repo # ""

\* C11: when the helper does not resolve all three values and one of the
\* three environment values is missing, push ends at once with the fatal
\* "credentials unavailable": no create has been attempted, the store has
\* been neither read nor written, and the file is as it was.
C11_NoCredentialsNoEffect ==
    [][\A p \in Procs :
          (proc[p].pc = "idle" /\ proc'[p].cmd = "push"
              /\ ~HelperComplete(world) /\ ~EnvComplete(world)) =>
             /\ proc'[p].pc = "done"
             /\ proc'[p].out = "CredentialsUnavailable"
             /\ proc'[p].out \in Fatal
             /\ proc'[p].attempts = << >>
             /\ proc'[p].issues = << >> /\ proc'[p].idx = 0
             /\ ~proc'[p].wrote
             /\ file' = file /\ fileExists' = fileExists]_vars

\* A push has failed for its credentials on a store with an open issue: the
\* helper gave owner and repository but no token, the environment a token
\* but no owner.
C11_Witness ==
    \E p \in Procs :
        /\ proc[p].cmd = "push" /\ proc[p].out = "CredentialsUnavailable"
        /\ ~world.ghRepo.err /\ Len(world.ghRepo.parts) = 2
        /\ world.ghRepo.parts[1] # ""
        /\ world.ghToken.err
        /\ world.env.token # "" /\ world.env.owner = ""
        /\ file = << I_1, I_2 >>

\* C17: the credentials a push goes on with are those of one tier: the
\* helper's three values when the helper resolved all three non-empty, and
\* otherwise the three environment values, with nothing of what the helper
\* resolved; every create is sent to the owner and repository so chosen.
C17_CredentialsFromOneTier ==
    \A p \in Procs :
        (proc[p].cmd = "push" /\ proc[p].out # "CredentialsUnavailable") =>
            /\ IF HelperComplete(world)
               THEN /\ proc[p].tier = 1
                    /\ proc[p].owner = world.ghRepo.parts[1]
                    /\ proc[p].repo = world.ghRepo.parts[2]
                    /\ proc[p].token = world.ghToken.out
               ELSE /\ proc[p].tier = 2
                    /\ proc[p].owner = world.env.owner
                    /\ proc[p].repo = world.env.repo
                    /\ proc[p].token = world.env.token
            /\ \A a \in 1..Len(proc[p].attempts) :
                  /\ proc[p].attempts[a].owner = proc[p].owner
                  /\ proc[p].attempts[a].repo = proc[p].repo

\* A push has ended, its creates sent to the owner and repository of the
\* environment with the environment's token, although the helper had
\* resolved an owner and a repository: it gave no token.
C17_Witness ==
    \E p \in Procs :
        /\ PushDone(p)
        /\ ~world.ghRepo.err /\ world.ghRepo.parts = << "ghowner", "ghrepo" >>
        /\ ~world.ghToken.err /\ world.ghToken.out = ""
        /\ proc[p].tier = 2
        /\ proc[p].token = "envtoken"
        /\ Len(proc[p].attempts) = 2
        /\ proc[p].attempts[1].owner = "envowner"
        /\ proc[p].attempts[1].repo = "envrepo"

\* C12: publish with a format other than markdown and json, the store
\* having loaded, fails with "unknown format", the report carrying the
\* format given, and the store file is as it was.
C12_UnknownFormatNoEffect ==
    [][\A p \in Procs :
          (proc[p].pc = "idle" /\ proc'[p].cmd = "publish" /\ ~loadFails
              /\ proc'[p].format \notin {"markdown", "json"}) =>
             /\ proc'[p].pc = "done"
             /\ proc'[p].out = "UnknownFormat"
             /\ proc'[p].out \in Fatal
             /\ proc'[p].shown = << >>
             /\ ~proc'[p].wrote
             /\ file' = file /\ fileExists' = fileExists]_vars

\* publish xml has failed on a store of two issues.
C12_Witness ==
    \E p \in Procs :
        /\ proc[p].cmd = "publish" /\ proc[p].format = "xml"
        /\ proc[p].out = "UnknownFormat"
        /\ Len(file) = 2

\* The list ascends strictly in the order of the byte values: it is sorted
\* and holds no label twice.
Ascending(labels) ==
    \A i \in 1..(Len(labels) - 1) : StrLess(labels[i], labels[i + 1])

\* C13: from an absent or empty store, the labels of every issue of the
\* store file are sorted ascending and hold no duplicate, whichever of add,
\* close and push wrote the file.
C13_LabelsSortedNoDuplicates ==
    \A i \in 1..Len(file) : Ascending(file[i].labels)

\* close has written a store whose first issue, labelled bug by add, it
\* closed, after a push had cleared an earlier store.
C13_Witness ==
    \E p \in Procs :
        /\ proc[p].cmd = "close" /\ proc[p].out = "closed"
        /\ Len(file) = 2
        /\ file[1].labels = << L_bug >> /\ file[1].status = statusClosed
        /\ file[2].labels = << >>
        /\ hist.ever = {1, 2, 3}

\* C14: for every title and every label list, autoLabel applied a second
\* time leaves the labels as the first application left them.
C14_AutoLabelIdempotent ==
    \A p \in Procs :
        Len(proc[p].issues) = 3 =>
            proc[p].issues[3].labels = proc[p].issues[2].labels

\* autoLabel has been applied twice to "BUG: crash on save" holding the
\* labels feature and bug: both times the labels are bug, feature.
C14_Witness ==
    \E p \in Procs :
        /\ Len(proc[p].issues) = 3
        /\ proc[p].issues[1].title = T_bug
        /\ proc[p].issues[1].labels = << L_feature, L_bug >>
        /\ proc[p].issues[2].labels = << L_bug, L_feature >>
        /\ proc[p].issues[3].labels = << L_bug, L_feature >>

\* C19: a close of k that succeeds changes the status of the first issue
\* with id k, whose id, title, labels and creation time stay as they were;
\* every other issue, the number of issues and their order stay as they
\* were.
C19_CloseChangesOneStatus ==
    [][\A p \in Procs :
          (CloseStep(p) /\ proc'[p].out = "closed") =>
             LET k == FirstWithID(file, proc[p].id)
             IN  /\ k # 0
                 /\ Len(file') = Len(file)
                 /\ \A j \in 1..Len(file) :
                       IF j = k
                       THEN /\ file'[j].status = statusClosed
                            /\ file'[j].id = file[j].id
                            /\ file'[j].title = file[j].title
                            /\ file'[j].labels = file[j].labels
                            /\ file'[j].created_at = file[j].created_at
                       ELSE file'[j] = file[j]]_vars

\* close 2 has succeeded on a store whose two issues both have id 2: the
\* first is closed, the second is open still.
C19_Witness ==
    \E p \in Procs :
        /\ proc[p].cmd = "close" /\ proc[p].out = "closed" /\ proc[p].id = 2
        /\ Len(file) = 2
        /\ file[1].id = 2 /\ file[1].status = statusClosed
        /\ file[1].labels = << L_bug >>
        /\ file[2].id = 2 /\ file[2].status = statusOpen

\* C15: nothing makes a saving invocation wait for, or look at, what another
\* has saved since it loaded: an add that saves writes the store it loaded
\* with its issue appended, and a close that saves writes the store it loaded
\* with the one status changed, whatever the file holds by then, and each
\* reports success. So of two invocations that loaded the same store the one
\* that saves last leaves its version, without the change of the other.
C15_SaveWritesLoadedCopy ==
    [][\A p \in Procs :
          /\ AddStep(p) =>
                /\ proc'[p].out = "added"
                /\ Len(file') = Len(proc[p].issues) + 1
                /\ SubSeq(file', 1, Len(proc[p].issues)) = proc[p].issues
                /\ file'[Len(file')].title = proc[p].title
                /\ ~torn'
          /\ (CloseStep(p) /\ proc'[p].out = "closed") =>
                /\ Len(file') = Len(proc[p].issues)
                /\ \A j \in 1..Len(file') :
                      j # FirstWithID(proc[p].issues, proc[p].id) =>
                         file'[j] = proc[p].issues[j]
                /\ ~torn']_vars

\* Both invocations loaded the same store of one issue, both added to it and
\* both reported success; the file is the version of p2, and the issue p1
\* added is in it nowhere.
C15_Witness ==
    /\ proc["p1"].out = "added" /\ proc["p1"].wrote
    /\ proc["p2"].out = "added" /\ proc["p2"].wrote
    /\ Len(proc["p1"].issues) = 2 /\ Len(proc["p2"].issues) = 2
    /\ proc["p1"].issues[1] = proc["p2"].issues[1]
    /\ proc["p1"].title = T_bug /\ proc["p2"].title = T_todo
    /\ ~torn
    /\ file = proc["p2"].issues
    /\ \A i \in 1..Len(file) : file[i] # proc["p1"].issues[2]

\* C16, as claimed: no load fails as StoreCorrupt because another invocation
\* is saving; the store being parsable before either starts, no load fails
\* so at all.
C16_LoadNeverSeesPartialFile ==
    \A p \in Procs : proc[p].out # "StoreCorrupt"

\* C20: the clear of a push writes the empty array whatever the file holds,
\* and the creates the push attempted are those owed for the store it
\* loaded; an issue that an add saved after that load is in the file before
\* the clear, is gone after it and is in no attempt.
C20_PushClearsWithoutReading ==
    [][\A p \in Procs :
          /\ (proc[p].pc = "push_loop" /\ proc'[p].pc = "push_loop") =>
                proc'[p].issues = proc[p].issues
          /\ (proc[p].pc = "push_loop" /\ proc'[p].pc = "done") =>
                /\ file' = << >> /\ fileExists' /\ ~torn'
                /\ proc'[p].out = "pushed"
                /\ AttemptsMade(p) = OwedCreates(proc[p].issues)]_vars

\* p1's push loaded a store of one issue and has ended; p2's add loaded the
\* same store and saved two issues before the clear; the file is empty and
\* no create was attempted for the issue added.
C20_Witness ==
    /\ PushDone("p1")
    /\ proc["p2"].out = "added"
    /\ Len(proc["p1"].issues) = 1
    /\ Len(proc["p2"].issues) = 2
    /\ proc["p2"].issues[1] = proc["p1"].issues[1]
    /\ proc["p2"].title = T_todo
    /\ Len(proc["p1"].attempts) = 1
    /\ proc["p1"].attempts[1].title = T_bug
    /\ fileExists /\ file = << >> /\ ~torn

\* C18: no step of a push before its clear changes the store file, so a
\* push terminated before the clear leaves the store as it found it,
\* whatever creates had succeeded; and the push run after it has attempted,
\* when it ends, a create for every open issue of that store, those of the
\* terminated run first among them, issue for issue, a second time.
C18_KilledPushLeavesStore ==
    [][/\ (\A p \in Procs :
              ~(proc[p].pc = "push_loop" /\ proc'[p].pc = "done")) =>
             (file' = file /\ fileExists' = fileExists /\ torn' = torn)
       /\ (proc["p1"].pc = "killed" /\ proc["p2"].pc = "push_loop"
              /\ proc'["p2"].pc = "done") =>
             /\ proc["p2"].issues = loadIssues
             /\ AttemptsMade("p2") = OwedCreates(loadIssues)
             /\ Len(AttemptsMade("p1")) <= Len(AttemptsMade("p2"))
             /\ AttemptsMade("p1") =
                   SubSeq(AttemptsMade("p2"), 1, Len(AttemptsMade("p1")))]_vars

\* p1 was terminated after its create for the first of two open issues had
\* succeeded; p2 has run to its end and has created that issue again.
C18_Witness ==
    /\ proc["p1"].pc = "killed"
    /\ Len(proc["p1"].issues) = 2
    /\ Len(proc["p1"].attempts) = 1
    /\ proc["p1"].attempts[1].ok
    /\ PushDone("p2")
    /\ proc["p2"].issues = proc["p1"].issues
    /\ Len(proc["p2"].attempts) = 2
    /\ proc["p2"].attempts[1].ok
    /\ proc["p2"].attempts[1].title = proc["p1"].attempts[1].title

=============================================================================
